---- MODULE Spec2Model ----
(***************************************************************************)
(* Subscription-management chatbot: admission gate (RateLimiter), the      *)
(* server's gate mounting and start-up (server.js), and the model-backend  *)
(* client's retry loop (LLMService).                                       *)
(*                                                                         *)
(* Node runs every synchronous function to completion, so one run of the   *)
(* gate middleware is one action; the clock (Date.now()) may advance       *)
(* between the two reads such a run makes.  Asynchronous handlers are      *)
(* split at their awaits.                                                  *)
(***************************************************************************)
EXTENDS Integers, Sequences, FiniteSets, TLC

\* ---------------------------------------------------------------- bounds
MaxRequests == 2        \* RateLimiter.maxRequests (configurable, default 10)
WindowMs    == 1500     \* RateLimiter.windowMs (configurable, default 60000)
TickMs      == 500      \* granularity at which the model lets time pass
MaxClock    == 3000     \* the model stops the clock here
MaxWords    == 3        \* vocabulary words a chat message is made of, at most
MaxCalls    == 2        \* invocations one backend reply holds, at most
MaxRecs     == 1        \* recommendations one backend reply holds, at most
MaxPrice    == 6        \* the small prices, in cents, run from 0 to this
MaxRows     == 2        \* subscriptions handed to the savings arithmetic, at most
MaxCatalog  == 2        \* plans in a catalog handed to analyzeConsolidation, at most

\* ------------------------------------------------------ program constants
MsPerSec == 1000        \* Math.ceil(getResetTime / 1000)

ClientIps == {"ip1", "ip2"}
ApiRoutes == {"health", "chat", "subscriptions", "billing", "recommendations"}

VARIABLES
  clock,         \* Date.now(), in ms
  GROQ_API_KEY,  \* TRUE iff process.env.GROQ_API_KEY is set
  proc,          \* "starting" (initializeServices pending), "serving", "exited"
  rateLimiter,   \* TRUE once `rateLimiter = new RateLimiter(...)` has run
  clients,       \* RateLimiter.clients : clientIp -> [count, resetTime]
  admitLog,      \* per identity, times at which the gate called next()
  denied,        \* per identity, TRUE iff its latest gate decision was a denial
  last,          \* outcome of the latest run of the '/api' gate
  subscriptions, \* rows of the subscriptions table, in insertion order
  chat,          \* the POST /api/chat request being handled
  llm,           \* the LLMService.generateResponse call in progress
  resp,          \* the response to the latest chat request
  cancelCalls    \* the cancelSubscription calls in progress, statement by statement

vars == <<clock, GROQ_API_KEY, proc, rateLimiter, clients, admitLog, denied, last,
          subscriptions, chat, llm, resp, cancelCalls>>
chatVars == <<subscriptions, chat, llm, resp>>
gateVars == <<clock, clients, admitLog, denied, last>>

\* ------------------------------------------------------------ RateLimiter

CeilDiv(a, b) == (a + b - 1) \div b

HasClient(cl, clientIp) == clientIp \in DOMAIN cl

\* Variant: the limit test admits at count = maxRequests.
IsAllowedOffByOne(cl, clientIp, now) ==
  IF ~HasClient(cl, clientIp) \/ now >= cl[clientIp].resetTime
  THEN TRUE
  ELSE cl[clientIp].count <= MaxRequests

IsAllowed(cl, clientIp, now) ==
  IF ~HasClient(cl, clientIp) \/ now >= cl[clientIp].resetTime
  THEN TRUE
  ELSE cl[clientIp].count < MaxRequests

\* Variant: the increment inside a live window is lost.
RecordRequestLostUpdate(cl, clientIp, now) ==
  IF ~HasClient(cl, clientIp) \/ now >= cl[clientIp].resetTime
  THEN [k \in DOMAIN cl \cup {clientIp} |->
          IF k = clientIp THEN [count |-> 1, resetTime |-> now + WindowMs]
          ELSE cl[k]]
  ELSE cl

\* Variant: every recorded request moves the reset time (sliding expiry).
RecordRequestSliding(cl, clientIp, now) ==
  IF ~HasClient(cl, clientIp) \/ now >= cl[clientIp].resetTime
  THEN [k \in DOMAIN cl \cup {clientIp} |->
          IF k = clientIp THEN [count |-> 1, resetTime |-> now + WindowMs]
          ELSE cl[k]]
  ELSE [cl EXCEPT ![clientIp] = [count |-> @.count + 1, resetTime |-> now + WindowMs]]

\* Variant: a new window starts from an empty map.
RecordRequestFreshMap(cl, clientIp, now) ==
  IF ~HasClient(cl, clientIp) \/ now >= cl[clientIp].resetTime
  THEN [k \in {clientIp} |-> [count |-> 1, resetTime |-> now + WindowMs]]
  ELSE [cl EXCEPT ![clientIp].count = @ + 1]

RecordRequest(cl, clientIp, now) ==
  IF ~HasClient(cl, clientIp) \/ now >= cl[clientIp].resetTime
  THEN [k \in DOMAIN cl \cup {clientIp} |->
          IF k = clientIp THEN [count |-> 1, resetTime |-> now + WindowMs]
          ELSE cl[k]]
  ELSE [cl EXCEPT ![clientIp].count = @ + 1]

GetResetTime(cl, clientIp, now) ==
  IF ~HasClient(cl, clientIp) THEN 0
  ELSE LET timeUntilReset == cl[clientIp].resetTime - now
       IN IF timeUntilReset > 0 THEN timeUntilReset ELSE 0

\* Variant: the sweep deletes every entry, expired or not.
CleanupAll(cl, now) == [k \in {} |-> cl[k]]

\* Variant: the sweep runs one tick ahead and deletes entries about to expire.
CleanupEarly(cl, now) ==
  [k \in {c \in DOMAIN cl : ~(now + TickMs >= cl[c].resetTime)} |-> cl[k]]

CleanupMap(cl, now) ==
  [k \in {c \in DOMAIN cl : ~(now >= cl[c].resetTime)} |-> cl[k]]

RetryAfter(cl, clientIp, now) == CeilDiv(GetResetTime(cl, clientIp, now), MsPerSec)

\* ------------------------------------------------------- history (ghost)

\* Admission times no interval of length WindowMs ending at or after `now`
\* can contain are dropped from the log.
Recent(log, now) == SelectSeq(log, LAMBDA t : t >= now - WindowMs)

NoOutcome == [ip |-> "none", gate |-> "none",
              retryAfter |-> 0, at |-> 0, resetTime |-> 0, afterDeny |-> FALSE]

\* The limiter produced the decision / the request went on to its route handler.
Decided(o) == o.gate \in {"next", "deny"}
Forwarded(o) == o.gate \in {"next", "bypass"}

\* Number of logged admissions of ip at or after time t.
AdmitsSince(ip, t) ==
  Cardinality({k \in 1..Len(admitLog[ip]) : admitLog[ip][k] >= t})

\* ------------------------------------------------------------ LLMService

maxRetries == 3         \* this.maxRetries
retryDelay == 1000      \* this.retryDelay

\* Variant: the test for the last attempt is off by one.
ExhaustedLate(attempt) == attempt = maxRetries + 1

\* `attempt === this.maxRetries` in the catch block of generateResponse.
Exhausted(attempt) == attempt = maxRetries

\* The delay handed to sleep() after a failed attempt.
Backoff(attempt) == retryDelay * attempt

\* value: what generateResponse returned, "completion" (the text of the
\* backend's completion) or "undefined" (the loop fell through).
IdleLlm == [pc |-> "idle", attempt |-> 0, purpose |-> "none",
            slept |-> <<>>, value |-> "none"]

\* generateResponse is entered: first attempt under way.
StartLlm(purpose) == [IdleLlm EXCEPT !.pc = "calling", !.attempt = 1,
                                     !.purpose = purpose]

\* ------------------------------------------------- lexical intent detection

\* The substrings the chat handler looks for in the lowercased message.
Keywords ==
  {"subscription", "plan", "show", "view", "list", "my", "what", "see", "have",
   "get", "billing", "payment", "transaction", "invoice", "history",
   "recommend", "suggest", "better plan", "upgrade", "downgrade",
   "subscribe", "sign up", "buy", "purchase", "basic", "pro", "enterprise",
   "cancel", "unsubscribe", "stop", "end"}

\* Words a message is made of: the keywords themselves and words without any.
Vocabulary == Keywords \cup {"hello", "thanks"}

\* The keywords that are substrings of a word.
Contains(w) ==
  {w} \cup (CASE w = "unsubscribe" -> {"subscribe"}
             [] w = "better plan" -> {"plan"}
             [] w = "recommend"   -> {"end"}
             [] OTHER             -> {})

\* Messages of n vocabulary words at most (none: a blank message).
RECURSIVE WordSets(_)
WordSets(n) ==
  IF n = 0 THEN {{}}
  ELSE LET shorter == WordSets(n - 1)
       IN shorter \cup {s \cup {w} : s \in shorter, w \in Vocabulary}

Messages == WordSets(MaxWords)

\* One message for each way the two classifiers can come out.
ChatMessages ==
  {{"show", "subscription"}, {"billing"}, {"recommend"},
   {"subscribe", "basic"}, {"subscribe", "pro"}, {"buy", "enterprise"},
   {"subscribe", "plan"}, {"cancel"}, {"hello"}, {"my", "hello"}}

\* A request body without the `message` field, without the `customerId` field.
NoMessage == {"(missing)"}
NoCustomer == "(missing)"

\* lowerMessage.includes(kw)
Includes(m, kw) == \E w \in m : kw \in Contains(w)

IncludesAny(m, kws) == \E kw \in kws : Includes(m, kw)

NoId == 0    \* an absent subscriptionId

Intent(action, planId, subscriptionId, confidence) ==
  [action |-> action, planId |-> planId, subscriptionId |-> subscriptionId,
   confidence |-> confidence]

GeneralQuery == Intent("general_query", "none", NoId, 5)

\* The condition each branch of the keyword chain tests, by the action the
\* branch resolves; nothing is tested for general_query, the initial value.
Trigger(action, m) ==
  CASE action = "view_subscriptions" ->
         /\ IncludesAny(m, {"subscription", "plan"})
         /\ IncludesAny(m, {"show", "view", "list", "my", "what", "see", "have", "get"})
    [] action = "view_billing" ->
         \/ IncludesAny(m, {"billing", "payment", "transaction", "invoice"})
         \/ (Includes(m, "history") /\ ~Includes(m, "subscription"))
    [] action = "get_recommendations" ->
         IncludesAny(m, {"recommend", "suggest", "better plan", "upgrade", "downgrade"})
    [] action = "create_subscription" ->
         /\ IncludesAny(m, {"subscribe", "sign up", "buy", "purchase", "get"})
         /\ IncludesAny(m, {"plan", "basic", "pro", "enterprise"})
    [] action = "cancel_subscription" ->
         IncludesAny(m, {"cancel", "unsubscribe", "stop", "end"})
    [] OTHER -> TRUE

\* Variant: the cancellation keywords are tested first.
KeywordIntentCancelFirst(m) ==
  IF IncludesAny(m, {"cancel", "unsubscribe", "stop", "end"})
  THEN Intent("cancel_subscription", "none", NoId, 8)
  ELSE IF IncludesAny(m, {"subscription", "plan"})
     /\ IncludesAny(m, {"show", "view", "list", "my", "what", "see", "have", "get"})
  THEN Intent("view_subscriptions", "none", NoId, 9)
  ELSE IF \/ IncludesAny(m, {"billing", "payment", "transaction", "invoice"})
          \/ (Includes(m, "history") /\ ~Includes(m, "subscription"))
  THEN Intent("view_billing", "none", NoId, 9)
  ELSE IF IncludesAny(m, {"recommend", "suggest", "better plan", "upgrade", "downgrade"})
  THEN Intent("get_recommendations", "none", NoId, 9)
  ELSE IF /\ IncludesAny(m, {"subscribe", "sign up", "buy", "purchase", "get"})
          /\ IncludesAny(m, {"plan", "basic", "pro", "enterprise"})
  THEN Intent("create_subscription",
              IF Includes(m, "basic") THEN "basic"
              ELSE IF Includes(m, "pro") /\ ~Includes(m, "enterprise") THEN "pro"
              ELSE IF Includes(m, "enterprise") THEN "enterprise"
              ELSE "none",
              NoId, 8)
  ELSE Intent("none", "none", NoId, 0)

\* Variant: 'pro' is taken whenever the message contains it.
KeywordIntentProFirst(m) ==
  IF IncludesAny(m, {"subscription", "plan"})
     /\ IncludesAny(m, {"show", "view", "list", "my", "what", "see", "have", "get"})
  THEN Intent("view_subscriptions", "none", NoId, 9)
  ELSE IF \/ IncludesAny(m, {"billing", "payment", "transaction", "invoice"})
          \/ (Includes(m, "history") /\ ~Includes(m, "subscription"))
  THEN Intent("view_billing", "none", NoId, 9)
  ELSE IF IncludesAny(m, {"recommend", "suggest", "better plan", "upgrade", "downgrade"})
  THEN Intent("get_recommendations", "none", NoId, 9)
  ELSE IF /\ IncludesAny(m, {"subscribe", "sign up", "buy", "purchase", "get"})
          /\ IncludesAny(m, {"plan", "basic", "pro", "enterprise"})
  THEN Intent("create_subscription",
              IF Includes(m, "basic") THEN "basic"
              ELSE IF Includes(m, "pro") THEN "pro"
              ELSE IF Includes(m, "enterprise") THEN "enterprise"
              ELSE "none",
              NoId, 8)
  ELSE IF IncludesAny(m, {"cancel", "unsubscribe", "stop", "end"})
  THEN Intent("cancel_subscription", "none", NoId, 8)
  ELSE Intent("none", "none", NoId, 0)

\* Variant: the cancellation keywords cancel the oldest subscription.
KeywordIntentCancelsOldest(m) ==
  IF IncludesAny(m, {"subscription", "plan"})
     /\ IncludesAny(m, {"show", "view", "list", "my", "what", "see", "have", "get"})
  THEN Intent("view_subscriptions", "none", NoId, 9)
  ELSE IF \/ IncludesAny(m, {"billing", "payment", "transaction", "invoice"})
          \/ (Includes(m, "history") /\ ~Includes(m, "subscription"))
  THEN Intent("view_billing", "none", NoId, 9)
  ELSE IF IncludesAny(m, {"recommend", "suggest", "better plan", "upgrade", "downgrade"})
  THEN Intent("get_recommendations", "none", NoId, 9)
  ELSE IF /\ IncludesAny(m, {"subscribe", "sign up", "buy", "purchase", "get"})
          /\ IncludesAny(m, {"plan", "basic", "pro", "enterprise"})
  THEN Intent("create_subscription",
              IF Includes(m, "basic") THEN "basic"
              ELSE IF Includes(m, "pro") /\ ~Includes(m, "enterprise") THEN "pro"
              ELSE IF Includes(m, "enterprise") THEN "enterprise"
              ELSE "none",
              NoId, 8)
  ELSE IF IncludesAny(m, {"cancel", "unsubscribe", "stop", "end"})
  THEN Intent("cancel_subscription", "none", 1, 8)
  ELSE Intent("none", "none", NoId, 0)

\* Confidence is kept in tenths (0.9 -> 9).
\* The if / else-if chain of POST /api/chat; "none" when no branch matches,
\* which leaves the initial general_query in place.
KeywordIntent(m) ==
  IF IncludesAny(m, {"subscription", "plan"})
     /\ IncludesAny(m, {"show", "view", "list", "my", "what", "see", "have", "get"})
  THEN Intent("view_subscriptions", "none", NoId, 9)
  ELSE IF \/ IncludesAny(m, {"billing", "payment", "transaction", "invoice"})
          \/ (Includes(m, "history") /\ ~Includes(m, "subscription"))
  THEN Intent("view_billing", "none", NoId, 9)
  ELSE IF IncludesAny(m, {"recommend", "suggest", "better plan", "upgrade", "downgrade"})
  THEN Intent("get_recommendations", "none", NoId, 9)
  ELSE IF /\ IncludesAny(m, {"subscribe", "sign up", "buy", "purchase", "get"})
          /\ IncludesAny(m, {"plan", "basic", "pro", "enterprise"})
  THEN Intent("create_subscription",
              IF Includes(m, "basic") THEN "basic"
              ELSE IF Includes(m, "pro") /\ ~Includes(m, "enterprise") THEN "pro"
              ELSE IF Includes(m, "enterprise") THEN "enterprise"
              ELSE "none",
              NoId, 8)
  ELSE IF IncludesAny(m, {"cancel", "unsubscribe", "stop", "end"})
  THEN Intent("cancel_subscription", "none", NoId, 8)
  ELSE Intent("none", "none", NoId, 0)

\* The keyword fallback inside LLMService.extractIntent, used when the
\* backend's text holds no parsable JSON.
ExtractFallback(m) ==
  IF IncludesAny(m, {"subscription", "show", "view", "list", "my"})
  THEN Intent("view_subscriptions", "none", NoId, 7)
  ELSE GeneralQuery

\* Both classifiers, tabulated over the messages.
KeywordIntentOf == [m \in Messages |-> KeywordIntent(m)]
ExtractFallbackOf == [m \in Messages |-> ExtractFallback(m)]

\* ----------------------------------------------------------------- store

MaxSubs == 1            \* rows the model lets the subscriptions table hold

Customers == {"customer-1", "customer-2"}     \* rows of the customers table
CustomerIds == Customers \cup {"customer-9"}  \* ids a request may carry
Plans == {"basic", "pro", "enterprise", "yearly-pro"}   \* rows of the plans table

NoDate == <<>>          \* a NULL end_date

\* SELECT ... WHERE s.customer_id = ? (positions of the customer's rows)
CustomerSubscriptions(subs, customerId) ==
  {k \in 1..Len(subs) : subs[k].customer_id = customerId}

\* Variant: the status of the rows is not looked at.
ActiveSubscriptionsAnyStatus(subs, customerId) ==
  CustomerSubscriptions(subs, customerId)

\* ... AND s.status = 'active'
ActiveSubscriptions(subs, customerId) ==
  {k \in CustomerSubscriptions(subs, customerId) : subs[k].status = "active"}

\* ---------------------------------------------------- SubscriptionManager

\* A subscription id is the position of its row (randomUUID() in the code).
\* The row with its id, as a SELECT returns it.
Selected(subs, id) ==
  [id |-> id, customer_id |-> subs[id].customer_id, plan_id |-> subs[id].plan_id,
   status |-> subs[id].status, end_date |-> subs[id].end_date]

NoData == {}

\* What a call of the manager comes to: cause "none" and the value it
\* returns (the set of the rows it selected), or the error it throws; subs
\* is the table after the call.
Returned(subs, data) == [cause |-> "none", subs |-> subs, data |-> data]
Thrown(subs, cause) == [cause |-> cause, subs |-> subs, data |-> NoData]

\* Variant: every plan id passes validation.
ValidatePlanSkipped(planId) == TRUE

\* validatePlan: the plan is a row of the plans table.
ValidatePlan(planId) == planId \in Plans

\* Variant: the row is inserted as paused.
NewSubscriptionPaused(customerId, planId) ==
  [customer_id |-> customerId, plan_id |-> planId, status |-> "paused",
   end_date |-> NoDate]

\* A row as createSubscription inserts it.
NewSubscription(customerId, planId) ==
  [customer_id |-> customerId, plan_id |-> planId, status |-> "active",
   end_date |-> NoDate]

\* Variant: a row that is cancelled already keeps its end date.
CancelledRowOnce(row, now) ==
  IF row.status = "cancelled" THEN row
  ELSE [row EXCEPT !.status = "cancelled", !.end_date = <<now>>]

\* The UPDATE of cancelSubscription.
CancelledRow(row, now) == [row EXCEPT !.status = "cancelled", !.end_date = <<now>>]

\* dbOk = FALSE: the database rejects the call's first statement.
\* The INSERT fails on the customer_id foreign key for an unknown customer.
createSubscription(subs, customerId, planId, dbOk) ==
  IF ~dbOk THEN Thrown(subs, "STORE")
  ELSE IF ~ValidatePlan(planId) THEN Thrown(subs, "VALIDATION")
  ELSE IF customerId \notin Customers THEN Thrown(subs, "STORE")
  ELSE LET after == Append(subs, NewSubscription(customerId, planId))
       IN Returned(after, {Selected(after, Len(after))})

cancelSubscription(subs, subscriptionId, now, dbOk) ==
  IF ~dbOk THEN Thrown(subs, "STORE")
  ELSE IF subscriptionId \notin 1..Len(subs) THEN Thrown(subs, "NOT_FOUND")
  ELSE LET after == [subs EXCEPT ![subscriptionId] = CancelledRow(@, now)]
       IN Returned(after, {Selected(after, subscriptionId)})

\* The rows of the SELECT ... JOIN plans ... WHERE s.customer_id = ? (every
\* row has a plan: plan_id is a foreign key); their order is not modelled.
getCustomerSubscriptions(subs, customerId, dbOk) ==
  IF ~dbOk THEN Thrown(subs, "STORE")
  ELSE Returned(subs, {Selected(subs, k) : k \in CustomerSubscriptions(subs, customerId)})

\* A field the `updates` object does not have.
NoField == "(absent)"

Statuses == {"active", "cancelled", "paused"}     \* CHECK(status IN (...))

\* The `updates` objects the model passes: any of plan_id (in the catalog or
\* not), status (allowed by the CHECK constraint or not) and end_date (NULL);
\* has_end_date tells whether the object has the end_date key.
\* next_billing_date, which no row of the model carries, is left out.
Updates ==
  [plan_id : {NoField, "pro", "gold"},
   status : {NoField, "cancelled", "paused", "expired"},
   has_end_date : BOOLEAN,
   end_date : {NoDate}]

\* The SET clause built from the allowed fields of `updates`.
UpdatedRow(row, updates) ==
  [customer_id |-> row.customer_id,
   plan_id  |-> IF updates.plan_id = NoField THEN row.plan_id ELSE updates.plan_id,
   status   |-> IF updates.status = NoField THEN row.status ELSE updates.status,
   end_date |-> IF updates.has_end_date THEN updates.end_date ELSE row.end_date]

updateSubscription(subs, subscriptionId, updates, dbOk) ==
  IF ~dbOk THEN Thrown(subs, "STORE")
  ELSE IF subscriptionId \notin 1..Len(subs) THEN Thrown(subs, "NOT_FOUND")
  ELSE IF updates.plan_id # NoField /\ ~ValidatePlan(updates.plan_id)
  THEN Thrown(subs, "VALIDATION")
  ELSE IF updates.plan_id = NoField /\ updates.status = NoField
          /\ ~updates.has_end_date
  THEN Thrown(subs, "NO_FIELDS")
  ELSE IF updates.status \notin Statuses \cup {NoField} THEN Thrown(subs, "STORE")
  ELSE LET after == [subs EXCEPT ![subscriptionId] = UpdatedRow(@, updates)]
       IN Returned(after, {Selected(after, subscriptionId)})

\* Intents the backend may put in its JSON: any action name (one of them
\* unknown to the dispatcher); a planId (absent, in the catalog or not) with
\* create_subscription and a subscriptionId (absent, of an existing row or
\* not) with cancel_subscription, the only cases that read them.
LlmActions == {"view_subscriptions", "view_billing", "get_recommendations",
               "general_query", "update_subscription"}
LlmPlanIds == {"none", "pro", "gold"}
LlmSubscriptionIds == 0..(MaxSubs + 1)
LlmIntents ==
  {Intent(a, "none", NoId, 9) : a \in LlmActions}
  \cup {Intent("create_subscription", p, NoId, 9) : p \in LlmPlanIds}
  \cup {Intent("cancel_subscription", "none", i, 9) : i \in LlmSubscriptionIds}

\* What the completion text of an intent request holds: a JSON intent, text
\* without JSON, or the JSON value null.
Reply(kind, intent) == [kind |-> kind, intent |-> intent]

IntentReplies ==
  {Reply("json", i) : i \in LlmIntents}
  \cup {Reply("text", GeneralQuery), Reply("null", GeneralQuery)}

\* The six actions of an ActionIntent.
Actions == {"view_subscriptions", "view_billing", "get_recommendations",
            "create_subscription", "cancel_subscription", "general_query"}

\* The declared shape of an intent: one of the six actions, a planId out of
\* the enumerated plan ids with create_subscription, a subscriptionId with
\* cancel_subscription.
SchemaValid(intent) ==
  /\ intent.action \in Actions
  /\ intent.action = "create_subscription" => intent.planId \in Plans
  /\ intent.action = "cancel_subscription" => intent.subscriptionId # NoId

\* How the payload of a reply stands to JSON and to the schema.
Payload(reply) ==
  IF reply.kind = "text" THEN "not_json"
  ELSE IF reply.kind = "null" THEN "bad_schema"
  ELSE IF SchemaValid(reply.intent) THEN "valid" ELSE "bad_schema"

\* ------------------------------------------------------------ chat request

\* message: the message, while its classification is the handler's latest
\* step; fallback: what extractIntent's keyword fallback makes of the message
\* (all the handler still needs of the message once its own keywords are
\* tested); intentCalls: a backend call was made to resolve the intent;
\* payload: how the backend's reply stood to JSON and the schema;
\* toolCalls: the invocations the backend returned (function-calling handler);
\* handlers, mutations: the switch cases run and the INSERT / UPDATE
\* statements executed for the request so far.
IdleChat == [pc |-> "idle", customerId |-> "none", message |-> NoMessage,
             fallback |-> GeneralQuery,
             intent |-> GeneralQuery, lexical |-> FALSE, intentCalls |-> FALSE,
             payload |-> "none", toolCalls |-> <<>>,
             handlers |-> 0, mutations |-> 0]

\* ------------------------------------------------- RecommendationEngine

\* The rows of the plans table in the order the seed inserts them; prices are
\* in cents.
Plan(id, name, price, billing_cycle) ==
  [id |-> id, name |-> name, price |-> price, billing_cycle |-> billing_cycle]

allPlans ==
  << Plan("basic", "Basic Plan", 999, "monthly"),
     Plan("pro", "Pro Plan", 2999, "monthly"),
     Plan("enterprise", "Enterprise Plan", 9999, "monthly"),
     Plan("yearly-pro", "Pro Plan (Yearly)", 28788, "yearly") >>

\* The plans row a subscription row is joined with (JOIN plans p ON
\* s.plan_id = p.id).
PlanOf(planId) == CHOOSE p \in {allPlans[i] : i \in DOMAIN allPlans} : p.id = planId

\* Math.round(x * 100) / 100 for an amount of n twelfths of a cent, in cents:
\* the nearest cent, a half going up.
RoundCents(n) == (n + 6) \div 12

\* The active rows at the positions ks, each joined with its plans row, in
\* the order of the table: the `subscriptions` array of generateRecommendations
\* (only the joined price and billing_cycle are read from it).
JoinedSubscriptions(subs, ks) ==
  LET at == SelectSeq([i \in 1..Len(subs) |-> i], LAMBDA i : i \in ks)
  IN [j \in 1..Len(at) |-> PlanOf(subs[at[j]].plan_id)]

\* Variant: a yearly price is counted as if it were charged each month.
CurrentMonthly12YearlyInFull(p) ==
  IF p.billing_cycle \in {"monthly", "yearly"} THEN 12 * p.price ELSE 0

\* What a subscription adds to currentMonthlyCost, in twelfths of a cent:
\* price if monthly, price / 12 if yearly, nothing otherwise.
CurrentMonthly12(p) ==
  IF p.billing_cycle = "monthly" THEN 12 * p.price
  ELSE IF p.billing_cycle = "yearly" THEN p.price
  ELSE 0

\* recommendedMonthlyCost, in twelfths of a cent.
RecommendedMonthly12(p) ==
  IF p.billing_cycle = "yearly" THEN p.price ELSE 12 * p.price

\* currentSubscriptions.reduce(...), in twelfths of a cent.
RECURSIVE CurrentMonthlyCost12(_)
CurrentMonthlyCost12(currentSubscriptions) ==
  IF currentSubscriptions = <<>> THEN 0
  ELSE CurrentMonthly12(Head(currentSubscriptions))
         + CurrentMonthlyCost12(Tail(currentSubscriptions))

\* The result is in cents.
calculateSavings(currentSubscriptions, recommendedPlan) ==
  RoundCents(CurrentMonthlyCost12(currentSubscriptions)
               - RecommendedMonthly12(recommendedPlan))

\* subscriptions.reduce((sum, s) => sum + s.price, 0), in cents.
RECURSIVE TotalCost(_)
TotalCost(rows) ==
  IF rows = <<>> THEN 0 ELSE Head(rows).price + TotalCost(Tail(rows))

\* The costImplication text: its wording and the amount it quotes.
CostImplication(phrase, amount) == [phrase |-> phrase, amount |-> amount]

NoImplication == CostImplication("(absent)", 0)

\* An entry of the result.
Recommendation(planId, planName, potentialSavings, costImplication) ==
  [planId |-> planId, planName |-> planName, potentialSavings |-> potentialSavings,
   costImplication |-> costImplication]

\* The canned entry for a customer without an active subscription: it is
\* returned as written, formatRecommendation does not run on it.
StarterRecommendation == Recommendation("basic", "Basic Plan", 0, NoImplication)

\* An element of the parsed backend reply: an object with planId, planName
\* and a numeric potentialSavings (in cents), the value null, or a number or
\* string, whose properties all read undefined.
Rec(kind, planId, planName, potentialSavings) ==
  [kind |-> kind, planId |-> planId, planName |-> planName,
   potentialSavings |-> potentialSavings]

NullRec == Rec("null", "none", "none", 0)
ScalarRec == Rec("scalar", "none", "none", 0)

ModelSavings == {-500, 0, 700}
ModelPlans == {<<"pro", "Pro Plan">>, <<"yearly-pro", "Pro Plan (Yearly)">>,
               <<"gold", "Enterprise Plan">>, <<"gold", "Gold Plan">>}
ModelRecs == {Rec("object", p[1], p[2], n) : p \in ModelPlans, n \in ModelSavings}

RECURSIVE RecLists(_)
RecLists(n) ==
  IF n = 0 THEN {<<>>}
  ELSE LET shorter == RecLists(n - 1)
       IN shorter \cup {Append(l, r) : l \in {x \in shorter : Len(x) = n - 1},
                                       r \in ModelRecs}

\* The completion text of a recommendation request: text that is not JSON
\* (kind "not_json"), a JSON array of objects (kind "array", the array in
\* `array`), or a JSON value that is not an array (kind "value", the value in
\* `value`).
ModelOutput(kind, array, value) == [kind |-> kind, array |-> array, value |-> value]

ModelOutputs ==
  {ModelOutput("not_json", <<>>, ScalarRec)}
  \cup {ModelOutput("array", l, ScalarRec) : l \in RecLists(MaxRecs)}
  \cup {ModelOutput("value", <<>>, r) : r \in ModelRecs \cup {NullRec, ScalarRec}}

\* LLMService.generateRecommendations after generateResponse: JSON.parse, a
\* value that is not an array is wrapped in one, text that does not parse
\* gives [].
ParsedRecommendations(out) ==
  CASE out.kind = "array" -> out.array
    [] out.kind = "value" -> <<out.value>>
    [] OTHER -> <<>>

\* allPlans.find(p => p.id === rec.planId || p.name === rec.planName): the
\* position of the first such row, 0 if there is none.
FindPlan(rec) ==
  LET found == {i \in DOMAIN allPlans :
                  allPlans[i].id = rec.planId \/ allPlans[i].name = rec.planName}
  IN IF found = {} THEN 0 ELSE CHOOSE i \in found : \A j \in found : i <= j

\* Variant: the plan is never found, so the savings are never recomputed.
RecomputedNever(subs, ks, rec) == rec

\* The body of recommendations.map up to formatRecommendation: the savings
\* are recomputed if the recommended plan is found.
Recomputed(subs, ks, rec) ==
  IF FindPlan(rec) # 0
  THEN [rec EXCEPT !.potentialSavings =
                     calculateSavings(JoinedSubscriptions(subs, ks), allPlans[FindPlan(rec)])]
  ELSE rec

formatRecommendation(rec) ==
  Recommendation(rec.planId, rec.planName, rec.potentialSavings,
                 IF rec.potentialSavings > 0
                 THEN CostImplication("Save", rec.potentialSavings)
                 ELSE IF rec.potentialSavings < 0
                 THEN CostImplication("Additional", 0 - rec.potentialSavings)
                 ELSE CostImplication("Similar cost", 0))

\* The plan names that hold 'enterprise' or 'premium' once lowercased.
PremiumNames == {"Enterprise Plan", "Premium Plan"}

\* plans.filter(...), in the order of plans.
premiumPlans(plans) == SelectSeq(plans, LAMBDA p : p.name \in PremiumNames)

\* bestPlan = premiumPlans[0] (there is a premium plan).
BestPlan(plans) == premiumPlans(plans)[1]

\* analyzeConsolidation: the entries it adds to the result (none, for its
\* null, or one).
analyzeConsolidation(rows, plans) ==
  IF Len(premiumPlans(plans)) > 0 /\ TotalCost(rows) - BestPlan(plans).price > 0
  THEN << Recommendation(BestPlan(plans).id, BestPlan(plans).name,
                         TotalCost(rows) - BestPlan(plans).price, NoImplication) >>
  ELSE <<>>

\* The consolidation step of generateRecommendations: analyzeConsolidation
\* runs for two subscriptions or more.
Consolidation(rows, plans) ==
  IF Len(rows) >= 2 THEN analyzeConsolidation(rows, plans) ELSE <<>>

\* generateRecommendations from the backend's reply on, for the active rows
\* ks: reading a property of null throws a TypeError.
FormattedRecommendations(subs, ks, out) ==
  LET recs == ParsedRecommendations(out)
      formatted == [i \in 1..Len(recs) |->
                      formatRecommendation(Recomputed(subs, ks, recs[i]))]
  IN IF \E i \in 1..Len(recs) : recs[i].kind = "null"
     THEN [cause |-> "TYPE", recommendations |-> <<>>]
     ELSE [cause |-> "none",
           recommendations |->
             formatted \o Consolidation(JoinedSubscriptions(subs, ks), allPlans)]

\* data: the `data` of the response body; lists: what the response text
\* enumerates; recommendations: the `recommendations` of the response body.
NoResponse == [status |-> 0, action |-> "none", text |-> "none", cause |-> "none",
               data |-> NoData, lists |-> {}, recommendations |-> <<>>]

Response(status, action, text, cause) ==
  [status |-> status, action |-> action, text |-> text, cause |-> cause,
   data |-> NoData, lists |-> {}, recommendations |-> <<>>]

\* Variant: the error is swallowed and nothing is sent.
ErrorResponseUnsent(cause) ==
  [status |-> 0, action |-> "none", text |-> "none", cause |-> cause,
   data |-> NoData, lists |-> {}, recommendations |-> <<>>]

\* The chat handler leaves through next(error): the error middleware answers
\* 500 with the error's message; `cause` records where the error came from.
ErrorResponse(cause) == Response(500, "none", "error", cause)

\* A response with a `data` payload, and a text enumerating `lists`.
WithData(r, data, lists) == [r EXCEPT !.data = data, !.lists = lists]

\* ------------------------------------------ cancelSubscription, by statement

\* Two callers whose cancelSubscription calls may overlap: each await of the
\* call hands control back, and the statements of the two calls reach the
\* database in any order.
CancelCallers == {"first", "second"}

\* pc: the statement the call is waiting for; at: the value of
\* new Date() in the UPDATE's parameters; cause, data: what the call came to.
IdleCall == [pc |-> "idle", subscriptionId |-> NoId, at |-> 0,
             cause |-> "none", data |-> NoData]

\* ------------------------------------------------------------------ Init

Init ==
  /\ clock = 0
  /\ GROQ_API_KEY \in BOOLEAN
  /\ proc = "starting"
  /\ rateLimiter = FALSE
  /\ clients = <<>>
  /\ admitLog = [i \in ClientIps |-> <<>>]
  /\ denied = [i \in ClientIps |-> FALSE]
  /\ last = NoOutcome
  /\ subscriptions = <<>>
  /\ chat = IdleChat
  /\ llm = IdleLlm
  /\ resp = NoResponse
  /\ cancelCalls = [c \in CancelCallers |-> IdleCall]

\* --------------------------------------------------------------- actions

\* initializeServices(): the database is opened (dbOk), the RateLimiter is
\* constructed, then `new LLMService(GROQ_API_KEY)` throws without a key;
\* any failure is caught and ends the process with process.exit(1).
InitializeServices(dbOk) ==
  /\ proc = "starting"
  /\ IF dbOk /\ GROQ_API_KEY
     THEN /\ proc' = "serving"
          /\ rateLimiter' = TRUE
     ELSE /\ proc' = "exited"
          /\ rateLimiter' = dbOk
  /\ UNCHANGED <<clock, GROQ_API_KEY, cancelCalls, clients, admitLog, denied, last>>
  /\ UNCHANGED chatVars

\* Time passes.
Tick ==
  /\ proc # "exited"
  /\ clock + TickMs <= MaxClock
  /\ clock' = clock + TickMs
  /\ admitLog' = [i \in ClientIps |-> Recent(admitLog[i], clock')]
  /\ UNCHANGED <<GROQ_API_KEY, cancelCalls, proc, rateLimiter, clients, denied, last>>
  /\ UNCHANGED chatVars

\* One run of app.use('/api', ...) for a request of identity ip that reaches
\* the exported express app (requests handled at the same clock value are
\* the concurrently arriving ones).  The gate is mounted on the '/api' prefix
\* and never reads the route, so every route shares it.  Without a limiter
\* the request goes straight to next(); otherwise RateLimiter.middleware()
\* checks at clock and reads the clock again d ms later, in getResetTime
\* (deny) or in recordRequest (admit).
GateRun(ip, route, d) ==
  /\ proc # "exited"
  /\ clock + d <= MaxClock
  /\ IF ~rateLimiter
     THEN /\ d = 0
          /\ last' = [ip |-> ip, gate |-> "bypass",
                      retryAfter |-> 0, at |-> clock, resetTime |-> 0,
                      afterDeny |-> FALSE]
          /\ UNCHANGED <<clock, clients, admitLog, denied>>
     ELSE /\ clock' = clock + d
          /\ IF ~IsAllowed(clients, ip, clock)
             THEN /\ last' = [ip |-> ip, gate |-> "deny",
                              retryAfter |-> RetryAfter(clients, ip, clock'),
                              at |-> clock', resetTime |-> clients[ip].resetTime,
                              afterDeny |-> denied[ip]]
                  /\ denied' = [denied EXCEPT ![ip] = TRUE]
                  /\ admitLog' = [i \in ClientIps |-> Recent(admitLog[i], clock')]
                  /\ UNCHANGED clients
             ELSE /\ clients' = RecordRequest(clients, ip, clock')
                  /\ admitLog' = [i \in ClientIps |->
                                    Recent(IF i = ip THEN Append(admitLog[i], clock')
                                           ELSE admitLog[i], clock')]
                  /\ last' = [ip |-> ip, gate |-> "next",
                              retryAfter |-> 0, at |-> clock', resetTime |-> 0,
                              afterDeny |-> denied[ip]]
                  /\ denied' = [denied EXCEPT ![ip] = FALSE]

\* A request the gate decides on, whatever becomes of it afterwards.
GateRequest(ip, route, d) ==
  /\ GateRun(ip, route, d)
  /\ UNCHANGED <<GROQ_API_KEY, cancelCalls, proc, rateLimiter>>
  /\ UNCHANGED chatVars

\* POST /api/chat for an admitted request, up to intent detection: a request
\* without customerId or message is answered 400; a keyword match settles
\* the intent; otherwise, with an API key, llmService.extractIntent is awaited.
ChatHandler(customerId, m) ==
  /\ proc = "serving"
  /\ chat.pc = "idle"
  /\ IF customerId = NoCustomer \/ m = NoMessage
     THEN /\ chat' = [IdleChat EXCEPT !.pc = "done", !.customerId = customerId]
          /\ resp' = Response(400, "none", "missing_fields", "MISSING_FIELDS")
          /\ UNCHANGED llm
     ELSE /\ resp' = NoResponse
          /\ LET k == KeywordIntentOf[m] IN
             IF k.action # "none"
             THEN /\ chat' = [IdleChat EXCEPT !.pc = "dispatch", !.customerId = customerId,
                                              !.message = m,
                                              !.intent = k, !.lexical = TRUE]
                  /\ UNCHANGED llm
             ELSE IF GROQ_API_KEY
             THEN /\ chat' = [IdleChat EXCEPT !.pc = "intent", !.customerId = customerId,
                                              !.message = m,
                                              !.fallback = ExtractFallbackOf[m]]
                  /\ llm' = StartLlm("intent")
             ELSE /\ chat' = [IdleChat EXCEPT !.pc = "dispatch", !.customerId = customerId,
                                              !.message = m]
                  /\ UNCHANGED llm

\* A chat request that has passed the gate.
ChatRequest(customerId, m) ==
  /\ ChatHandler(customerId, m)
  /\ UNCHANGED <<GROQ_API_KEY, cancelCalls, proc, rateLimiter, subscriptions>>
  /\ UNCHANGED gateVars

\* The 429 answer of RateLimiter.middleware().
RateLimitResponse == Response(429, "none", "rate_limited", "RATE_LIMIT_EXCEEDED")

\* POST /api/chat from the gate on: the gate runs, and answers 429 itself or
\* calls next(), which enters the chat handler.
ServeChatRequest(ip, d, customerId, m) ==
  /\ proc = "serving"
  /\ chat.pc = "idle"
  /\ GateRun(ip, "chat", d)
  /\ IF last'.gate = "deny"
     THEN /\ resp' = RateLimitResponse
          /\ UNCHANGED <<chat, llm>>
     ELSE ChatHandler(customerId, m)
  /\ UNCHANGED <<GROQ_API_KEY, cancelCalls, proc, rateLimiter, subscriptions>>

\* client.chat.completions.create settles: with a completion (ok), or with
\* an error, after which generateResponse throws if the attempts are
\* exhausted and otherwise sleeps retryDelay * attempt.
BackendResult(ok) ==
  /\ llm.pc = "calling"
  /\ IF ok
     THEN llm' = [llm EXCEPT !.pc = "returned", !.value = "completion"]
     ELSE IF Exhausted(llm.attempt)
     THEN llm' = [llm EXCEPT !.pc = "thrown"]
     ELSE llm' = [llm EXCEPT !.pc = "sleeping",
                             !.slept = Append(@, Backoff(llm.attempt))]
  /\ chat' = [chat EXCEPT !.intentCalls = @ \/ llm.purpose = "intent"]
  /\ UNCHANGED <<GROQ_API_KEY, cancelCalls, proc, rateLimiter, subscriptions, resp>>
  /\ UNCHANGED gateVars

\* The sleep() timer fires: attempt++, and the for loop either makes the
\* next attempt or, past maxRetries, falls through and returns undefined.
SleepDone ==
  /\ llm.pc = "sleeping"
  /\ IF llm.attempt + 1 <= maxRetries
     THEN llm' = [llm EXCEPT !.pc = "calling", !.attempt = @ + 1]
     ELSE llm' = [llm EXCEPT !.pc = "returned", !.attempt = @ + 1,
                             !.value = "undefined"]
  /\ UNCHANGED <<GROQ_API_KEY, cancelCalls, proc, rateLimiter, subscriptions, chat, resp>>
  /\ UNCHANGED gateVars

\* llmService.extractIntent settles; reply is what the completion text
\* holds.  Parsed JSON is returned as it is, text without JSON goes through
\* the keyword fallback; when extractIntent throws (backend unavailable, or
\* nothing to parse) the handler logs the error and keeps general_query.
\* A parsed null is returned as the intent, and `switch (intent.action)`
\* throws a TypeError, which goes to the error middleware.
ExtractIntentDone(reply) ==
  /\ chat.pc = "intent"
  /\ llm.pc \in {"returned", "thrown"}
  /\ LET read == ~(llm.pc = "thrown" \/ llm.value = "undefined")
         base == [chat EXCEPT !.message = NoMessage, !.fallback = GeneralQuery,
                              !.payload = IF read THEN Payload(reply) ELSE "none"]
     IN IF read /\ reply.kind = "null"
        THEN /\ chat' = [base EXCEPT !.pc = "done"]
             /\ resp' = ErrorResponse("TYPE")
        ELSE /\ chat' = [base EXCEPT
                          !.pc = "dispatch",
                          !.intent = IF ~read THEN GeneralQuery
                                     ELSE IF reply.kind = "json" THEN reply.intent
                                     ELSE chat.fallback]
             /\ UNCHANGED resp
  /\ llm' = IdleLlm
  /\ UNCHANGED <<GROQ_API_KEY, cancelCalls, proc, rateLimiter, subscriptions>>
  /\ UNCHANGED gateVars

\* The response has been sent and the handler has returned: nothing of the
\* request remains.
RequestEnds ==
  /\ chat.pc = "done"
  /\ chat' = IdleChat
  /\ resp' = NoResponse
  /\ UNCHANGED <<GROQ_API_KEY, cancelCalls, proc, rateLimiter, subscriptions, llm>>
  /\ UNCHANGED gateVars

\* Variant: a parameter counts as given whatever its value.
HasParameterAlways(v, absent) == TRUE

\* `if (intent.parameters.planId)`, `if (intent.parameters.subscriptionId)`:
\* the parameter is not the absent value of its kind.
HasParameter(v, absent) == v # absent

\* The four actions the dispatcher serves without the model backend.
NonModelActions == {"view_subscriptions", "view_billing",
                    "create_subscription", "cancel_subscription"}

\* The cases of the switch that work on the store alone, for action a of
\* customer cid with parameters pid, sid: what the store call comes to (out),
\* the response, and whether an INSERT / UPDATE was executed.  Both chat
\* handlers have these cases.  dbOk = FALSE lets the store call of the case
\* reject.
StoreCase(subs, now, a, cid, pid, sid, dbOk) ==
  LET creates == a = "create_subscription" /\ HasParameter(pid, "none")
      cancels == a = "cancel_subscription" /\ HasParameter(sid, NoId)
      out  == IF creates THEN createSubscription(subs, cid, pid, dbOk)
              ELSE IF cancels THEN cancelSubscription(subs, sid, now, dbOk)
              ELSE IF a = "create_subscription" THEN Returned(subs, NoData)
              ELSE IF a = "view_billing"
              THEN (IF dbOk THEN Returned(subs, NoData) ELSE Thrown(subs, "STORE"))
              ELSE getCustomerSubscriptions(subs, cid, dbOk)
  IN [out |-> out,
      mutated |-> (creates \/ cancels) /\ out.cause = "none",
      resp |->
        IF out.cause # "none" THEN ErrorResponse(out.cause)
        ELSE IF creates
        THEN WithData(Response(200, "subscription_created", "created", "none"),
                      out.data, {})
        ELSE IF cancels
        THEN WithData(Response(200, "subscription_cancelled", "cancelled", "none"),
                      out.data, {})
        ELSE IF a = "create_subscription"
        THEN WithData(Response(200, "none", "which_plan", "none"), NoData, Plans)
        ELSE IF a = "cancel_subscription"
        THEN WithData(Response(200, "none",
                               IF out.data = {} THEN "nothing_to_cancel"
                               ELSE "which_subscription", "none"),
                      NoData, out.data)
        ELSE IF a = "view_subscriptions"
        THEN WithData(Response(200, "none",
                               IF out.data = {} THEN "no_subscriptions"
                               ELSE "subscription_list", "none"),
                      out.data, out.data)
        ELSE Response(200, "none", "billing", "none")]

\* The switch over intent.action, for the cases that need no backend call
\* (the case that asks which plan makes no store call at all).
Dispatch(dbOk) ==
  /\ chat.pc = "dispatch"
  /\ chat.intent.action \in NonModelActions
  /\ LET case == StoreCase(subscriptions, clock, chat.intent.action, chat.customerId,
                           chat.intent.planId, chat.intent.subscriptionId, dbOk)
     IN
     /\ (chat.intent.action = "create_subscription"
          /\ ~HasParameter(chat.intent.planId, "none")) => dbOk
     /\ Len(case.out.subs) <= MaxSubs
     /\ subscriptions' = case.out.subs
     /\ resp' = case.resp
     /\ chat' = [chat EXCEPT !.pc = "done", !.message = NoMessage,
                             !.handlers = @ + 1,
                             !.mutations = IF case.mutated THEN @ + 1 ELSE @]
  /\ UNCHANGED <<GROQ_API_KEY, cancelCalls, proc, rateLimiter, llm>>
  /\ UNCHANGED gateVars

\* recommendationEngine.generateRecommendations up to its backend call, in
\* the request chat: unknown customer -> error, no active subscription ->
\* the starter recommendation without a backend call.
\* c is the request as it stands when the call is made.
StartRecommendationsFor(c, dbOk) ==
  IF ~dbOk
  THEN /\ resp' = ErrorResponse("STORE")
       /\ chat' = [c EXCEPT !.pc = "done", !.message = NoMessage,
                            !.handlers = @ + 1]
       /\ UNCHANGED llm
  ELSE IF c.customerId \notin Customers
  THEN /\ resp' = ErrorResponse("NOT_FOUND")
       /\ chat' = [c EXCEPT !.pc = "done", !.message = NoMessage,
                            !.handlers = @ + 1]
       /\ UNCHANGED llm
  ELSE IF ActiveSubscriptions(subscriptions, c.customerId) = {}
  THEN /\ resp' = [Response(200, "none", "starter_recommendation", "none")
                     EXCEPT !.recommendations = <<StarterRecommendation>>]
       /\ chat' = [c EXCEPT !.pc = "done", !.message = NoMessage,
                            !.handlers = @ + 1]
       /\ UNCHANGED llm
  ELSE /\ llm' = StartLlm("recommend")
       /\ chat' = [c EXCEPT !.pc = "recommend", !.message = NoMessage,
                            !.handlers = @ + 1]
       /\ resp' = NoResponse

StartRecommendations(dbOk) == StartRecommendationsFor(chat, dbOk)

\* The cases of the switch that call the backend: get_recommendations
\* (RecommendationEngine) and the default case (general_query or an action
\* name the switch does not know), which reads the customer's subscriptions
\* and asks the backend for a reply.
DispatchToBackend(dbOk) ==
  /\ chat.pc = "dispatch"
  /\ chat.intent.action \notin NonModelActions
  /\ IF chat.intent.action = "get_recommendations"
     THEN StartRecommendations(dbOk)
     ELSE IF ~dbOk
     THEN /\ resp' = ErrorResponse("STORE")
          /\ chat' = [chat EXCEPT !.pc = "done", !.message = NoMessage,
                                  !.handlers = @ + 1]
          /\ UNCHANGED llm
     ELSE /\ llm' = StartLlm("reply")
          /\ chat' = [chat EXCEPT !.pc = "reply", !.message = NoMessage,
                                  !.handlers = @ + 1]
          /\ UNCHANGED resp
  /\ UNCHANGED <<GROQ_API_KEY, cancelCalls, proc, rateLimiter, subscriptions>>
  /\ UNCHANGED gateVars

\* The generateResponse call made by the dispatcher settles: its text (or the
\* recommendations built from it) is sent, or the 'AI service temporarily
\* unavailable' error goes to the error middleware.
ReplyDone ==
  /\ chat.pc = "reply"
  /\ llm.pc \in {"returned", "thrown"}
  /\ resp' = IF llm.pc = "thrown" THEN ErrorResponse("BACKEND")
             ELSE Response(200, "none", "llm_text", "none")
  /\ chat' = [chat EXCEPT !.pc = "done"]
  /\ llm' = IdleLlm
  /\ UNCHANGED <<GROQ_API_KEY, cancelCalls, proc, rateLimiter, subscriptions>>
  /\ UNCHANGED gateVars

\* The backend call of generateRecommendations has settled with the
\* completion text `out` (a generateResponse that ran out of attempts returns
\* undefined, which JSON.parse rejects): the entries are recomputed,
\* formatted and returned, or the error is passed on.
RecommendationsDone(out) ==
  /\ chat.pc = "recommend"
  /\ llm.pc \in {"returned", "thrown"}
  /\ llm.value = "undefined" => out.kind = "not_json"
  /\ LET result == FormattedRecommendations(
                     subscriptions, ActiveSubscriptions(subscriptions, chat.customerId),
                     out)
     IN resp' = IF llm.pc = "thrown" THEN ErrorResponse("BACKEND")
                ELSE IF result.cause # "none" THEN ErrorResponse(result.cause)
                ELSE [Response(200, "none", "recommendations", "none")
                        EXCEPT !.recommendations = result.recommendations]
  /\ chat' = [chat EXCEPT !.pc = "done"]
  /\ llm' = IdleLlm
  /\ UNCHANGED <<GROQ_API_KEY, cancelCalls, proc, rateLimiter, subscriptions>>
  /\ UNCHANGED gateVars

\* ------------------------------------------------ calls of the manager

\* A call of a SubscriptionManager method and what it came to.
Call(name, customerId, planId, subscriptionId, updates) ==
  [name |-> name, customerId |-> customerId, planId |-> planId,
   subscriptionId |-> subscriptionId, updates |-> updates]

NoUpdates == [plan_id |-> NoField, status |-> NoField, has_end_date |-> FALSE,
              end_date |-> NoDate]

CallResult(call, out) ==
  [status |-> 0, action |-> "none",
   text |-> IF out.cause = "none" THEN "returned" ELSE "thrown",
   cause |-> out.cause, data |-> out.data, lists |-> {}, recommendations |-> <<>>,
   call |-> call]

\* Plan ids and subscription ids the calls are made with.
CallPlanIds == {"basic", "pro", "gold"}
CallSubscriptionIds == 1..(MaxSubs + 1)

\* subscriptionManager.createSubscription(customerId, planId) is called and
\* settles.
CallCreateSubscription(customerId, planId, dbOk) ==
  /\ proc = "serving"
  /\ chat.pc = "idle"
  /\ LET out == createSubscription(subscriptions, customerId, planId, dbOk) IN
     /\ Len(out.subs) <= MaxSubs
     /\ subscriptions' = out.subs
     /\ resp' = CallResult(Call("createSubscription", customerId, planId, NoId,
                                NoUpdates), out)
  /\ UNCHANGED <<GROQ_API_KEY, cancelCalls, proc, rateLimiter, chat, llm>>
  /\ UNCHANGED gateVars

\* subscriptionManager.updateSubscription(subscriptionId, updates)
CallUpdateSubscription(subscriptionId, updates, dbOk) ==
  /\ proc = "serving"
  /\ chat.pc = "idle"
  /\ LET out == updateSubscription(subscriptions, subscriptionId, updates, dbOk) IN
     /\ subscriptions' = out.subs
     /\ resp' = CallResult(Call("updateSubscription", "none", "none", subscriptionId,
                                updates), out)
  /\ UNCHANGED <<GROQ_API_KEY, cancelCalls, proc, rateLimiter, chat, llm>>
  /\ UNCHANGED gateVars

\* subscriptionManager.cancelSubscription(subscriptionId)
CallCancelSubscription(subscriptionId, dbOk) ==
  /\ proc = "serving"
  /\ chat.pc = "idle"
  /\ LET out == cancelSubscription(subscriptions, subscriptionId, clock, dbOk) IN
     /\ subscriptions' = out.subs
     /\ resp' = CallResult(Call("cancelSubscription", "none", "none", subscriptionId,
                                NoUpdates), out)
  /\ UNCHANGED <<GROQ_API_KEY, cancelCalls, proc, rateLimiter, chat, llm>>
  /\ UNCHANGED gateVars

\* cancelSubscription(subscriptionId) is called: the first SELECT is issued.
CancelStarts(c, subscriptionId) ==
  /\ proc = "serving"
  /\ cancelCalls[c].pc = "idle"
  /\ cancelCalls' = [cancelCalls EXCEPT ![c] =
                       [IdleCall EXCEPT !.pc = "select", !.subscriptionId = subscriptionId]]
  /\ UNCHANGED <<GROQ_API_KEY, proc, rateLimiter, subscriptions, chat, llm, resp>>
  /\ UNCHANGED gateVars

\* The first SELECT settles: without a row the call throws; with one, the
\* UPDATE is issued with the current time among its parameters.
CancelSelected(c, dbOk) ==
  /\ cancelCalls[c].pc = "select"
  /\ cancelCalls' = [cancelCalls EXCEPT ![c] =
       IF ~dbOk THEN [@ EXCEPT !.pc = "thrown", !.cause = "STORE"]
       ELSE IF @.subscriptionId \notin 1..Len(subscriptions)
       THEN [@ EXCEPT !.pc = "thrown", !.cause = "NOT_FOUND"]
       ELSE [@ EXCEPT !.pc = "update", !.at = clock]]
  /\ UNCHANGED <<GROQ_API_KEY, proc, rateLimiter, subscriptions, chat, llm, resp>>
  /\ UNCHANGED gateVars

\* The UPDATE is executed, or rejected; then the final SELECT is issued.
CancelUpdated(c, dbOk) ==
  /\ cancelCalls[c].pc = "update"
  /\ IF dbOk
     THEN /\ subscriptions' = [subscriptions EXCEPT ![cancelCalls[c].subscriptionId] =
                                 CancelledRow(@, cancelCalls[c].at)]
          /\ cancelCalls' = [cancelCalls EXCEPT ![c].pc = "reselect"]
     ELSE /\ cancelCalls' = [cancelCalls EXCEPT ![c].pc = "thrown", ![c].cause = "STORE"]
          /\ UNCHANGED subscriptions
  /\ UNCHANGED <<GROQ_API_KEY, proc, rateLimiter, chat, llm, resp>>
  /\ UNCHANGED gateVars

\* The final SELECT settles and the call returns the row as it is then.
CancelReturned(c, dbOk) ==
  /\ cancelCalls[c].pc = "reselect"
  /\ cancelCalls' = [cancelCalls EXCEPT ![c] =
       IF ~dbOk THEN [@ EXCEPT !.pc = "thrown", !.cause = "STORE"]
       ELSE [@ EXCEPT !.pc = "returned",
                      !.data = {Selected(subscriptions, cancelCalls[c].subscriptionId)}]]
  /\ UNCHANGED <<GROQ_API_KEY, proc, rateLimiter, subscriptions, chat, llm, resp>>
  /\ UNCHANGED gateVars

\* The caller has its result; it may call again.
CancelEnds(c) ==
  /\ cancelCalls[c].pc \in {"returned", "thrown"}
  /\ cancelCalls' = [cancelCalls EXCEPT ![c] = IdleCall]
  /\ UNCHANGED <<GROQ_API_KEY, proc, rateLimiter, subscriptions, chat, llm, resp>>
  /\ UNCHANGED gateVars

\* GET /api/subscriptions/:customerId, which answers with what
\* subscriptionManager.getCustomerSubscriptions(customerId) returns.
SubscriptionsRoute(customerId, dbOk) ==
  /\ proc = "serving"
  /\ chat.pc = "idle"
  /\ LET out == getCustomerSubscriptions(subscriptions, customerId, dbOk) IN
     resp' = CallResult(Call("getCustomerSubscriptions", customerId, "none", NoId,
                             NoUpdates), out)
  /\ UNCHANGED <<GROQ_API_KEY, cancelCalls, proc, rateLimiter, subscriptions, chat, llm>>
  /\ UNCHANGED gateVars

\* GET /api/recommendations/:customerId: generateRecommendations for the
\* customer of the path.
RecommendationsRoute(customerId, dbOk) ==
  /\ proc = "serving"
  /\ chat.pc = "idle"
  /\ StartRecommendationsFor([IdleChat EXCEPT !.customerId = customerId], dbOk)
  /\ UNCHANGED <<GROQ_API_KEY, cancelCalls, proc, rateLimiter, subscriptions>>
  /\ UNCHANGED gateVars

\* ------------------------------------------------- calls of the engine

\* The lists of n elements of S at most.
RECURSIVE Lists(_, _)
Lists(S, n) ==
  IF n = 0 THEN {<<>>}
  ELSE LET shorter == Lists(S, n - 1)
       IN shorter \cup {Append(l, x) : l \in {y \in shorter : Len(y) = n - 1}, x \in S}

\* The billing cycles the plans table holds.
BillingCycles == {"monthly", "yearly"}

\* Prices in cents: the small ones, which meet every remainder of a yearly
\* price divided by 12 that rounds differently, and two of the seed.
Prices == (0..MaxPrice) \cup {999, 2999}

\* Joined subscription rows and plans for calculateSavings, which reads
\* nothing but price and billing_cycle.
PricedPlans == {Plan("any", "Any Plan", c, b) : c \in Prices, b \in BillingCycles}

\* Catalog rows for analyzeConsolidation: premium by name or not, at the
\* prices of the seed.
SeedPrices == {999, 2999, 9999}
CatalogPlans ==
  {Plan(n[1], n[2], c, "monthly") :
     n \in {<<"enterprise", "Enterprise Plan">>, <<"premium", "Premium Plan">>,
            <<"pro", "Pro Plan">>},
     c \in SeedPrices}
\* The catalogs: plans.id is the primary key of the table.
Catalogs ==
  {l \in Lists(CatalogPlans, MaxCatalog) :
     \A i, j \in 1..Len(l) : l[i].id = l[j].id => i = j}
SeedPricedPlans == {Plan("any", "Any Plan", c, b) : c \in SeedPrices, b \in BillingCycles}

\* A call of the engine's arithmetic and what it returned: value for
\* calculateSavings, recommendations for the consolidation step.
EngineCall(name, rows, plans) == [name |-> name, rows |-> rows, plans |-> plans]

EngineResult(call, value, recommendations) ==
  [status |-> 0, action |-> "none", text |-> "returned", cause |-> "none",
   data |-> NoData, lists |-> {}, recommendations |-> recommendations,
   call |-> call, value |-> value]

CallCalculateSavings(currentSubscriptions, recommendedPlan) ==
  /\ chat.pc = "idle"
  /\ resp = NoResponse
  /\ resp' = EngineResult(EngineCall("calculateSavings", currentSubscriptions,
                                     <<recommendedPlan>>),
                          calculateSavings(currentSubscriptions, recommendedPlan), <<>>)
  /\ UNCHANGED <<GROQ_API_KEY, cancelCalls, proc, rateLimiter, subscriptions, chat, llm>>
  /\ UNCHANGED gateVars

CallConsolidation(rows, plans) ==
  /\ chat.pc = "idle"
  /\ resp = NoResponse
  /\ resp' = EngineResult(EngineCall("consolidation", rows, plans), 0,
                          Consolidation(rows, plans))
  /\ UNCHANGED <<GROQ_API_KEY, cancelCalls, proc, rateLimiter, subscriptions, chat, llm>>
  /\ UNCHANGED gateVars

\* The caller has taken the result.
CallReturns ==
  /\ chat.pc = "idle"
  /\ resp # NoResponse
  /\ resp' = NoResponse
  /\ UNCHANGED <<GROQ_API_KEY, cancelCalls, proc, rateLimiter, subscriptions, chat, llm>>
  /\ UNCHANGED gateVars

\* ------------------------------------------- function-calling chat handler

\* An invocation returned by the backend: the function name and its argument
\* payload, which is JSON (json) holding planId / subscriptionId or not.
ToolCall(name, json, planId, subscriptionId) ==
  [name |-> name, json |-> json, planId |-> planId, subscriptionId |-> subscriptionId]

\* The invocations the model lets the backend return.
ToolCalls ==
  {ToolCall("view_subscriptions", TRUE, "none", NoId),
   ToolCall("get_recommendations", TRUE, "none", NoId),
   ToolCall("create_subscription", TRUE, "pro", NoId),
   ToolCall("create_subscription", TRUE, "none", NoId),
   ToolCall("create_subscription", FALSE, "none", NoId),
   ToolCall("cancel_subscription", TRUE, "none", 1),
   ToolCall("cancel_subscription", TRUE, "none", NoId),
   ToolCall("send_email", TRUE, "none", NoId)}

\* llmResponse.toolCalls: up to n invocations.
RECURSIVE CallLists(_)
CallLists(n) ==
  IF n = 0 THEN {<<>>}
  ELSE LET shorter == CallLists(n - 1)
       IN shorter \cup {Append(l, c) : l \in shorter, c \in ToolCalls}

ToolCallLists == CallLists(MaxCalls)

\* Variant: the last invocation is the one taken.
LastCall(toolCalls) == toolCalls[Len(toolCalls)]

\* `llmResponse.toolCalls[0]`
FirstCall(toolCalls) == toolCalls[1]

\* The case of the switch a function name selects.
ToolAction(name) == IF name = "view_billing_history" THEN "view_billing" ELSE name

\* POST /api/chat of the function-calling handler, up to its backend call:
\* a request without customerId or message is answered 400, otherwise
\* llmService.generateResponseWithTools is awaited.
ToolChatRequest(customerId, m) ==
  /\ proc = "serving"
  /\ chat.pc = "idle"
  /\ IF customerId = NoCustomer \/ m = NoMessage
     THEN /\ chat' = [IdleChat EXCEPT !.pc = "done", !.customerId = customerId]
          /\ resp' = Response(400, "none", "missing_fields", "MISSING_FIELDS")
          /\ UNCHANGED llm
     ELSE /\ chat' = [IdleChat EXCEPT !.pc = "tools", !.customerId = customerId]
          /\ resp' = NoResponse
          /\ llm' = StartLlm("tools")
  /\ UNCHANGED <<GROQ_API_KEY, cancelCalls, proc, rateLimiter, subscriptions>>
  /\ UNCHANGED gateVars

\* generateResponseWithTools settles, with free text (no invocation) or with
\* the invocations toolCalls; when it throws the error goes to the error
\* middleware.
ToolsResponse(toolCalls) ==
  /\ chat.pc = "tools"
  /\ llm.pc \in {"returned", "thrown"}
  /\ IF llm.pc = "thrown"
     THEN /\ resp' = ErrorResponse("BACKEND")
          /\ chat' = [chat EXCEPT !.pc = "done"]
     ELSE IF toolCalls = <<>>
     THEN /\ resp' = Response(200, "none", "llm_text", "none")
          /\ chat' = [chat EXCEPT !.pc = "done"]
     ELSE /\ chat' = [chat EXCEPT !.pc = "toolcall", !.toolCalls = toolCalls]
          /\ UNCHANGED resp
  /\ llm' = IdleLlm
  /\ UNCHANGED <<GROQ_API_KEY, cancelCalls, proc, rateLimiter, subscriptions>>
  /\ UNCHANGED gateVars

\* The first invocation is taken: JSON.parse of its arguments (a throw goes
\* to the error middleware), then the switch over the function name.
ToolDispatch(dbOk) ==
  /\ chat.pc = "toolcall"
  /\ LET call == FirstCall(chat.toolCalls)
         a    == ToolAction(call.name)
         case == StoreCase(subscriptions, clock, a, chat.customerId,
                           call.planId, call.subscriptionId, dbOk)
     IN
     IF ~call.json
     THEN /\ dbOk
          /\ resp' = ErrorResponse("PARSE")
          /\ chat' = [chat EXCEPT !.pc = "done"]
          /\ UNCHANGED <<subscriptions, llm>>
     ELSE IF a \in NonModelActions
     THEN /\ (a = "create_subscription" /\ ~HasParameter(call.planId, "none")) => dbOk
          /\ Len(case.out.subs) <= MaxSubs
          /\ subscriptions' = case.out.subs
          /\ resp' = case.resp
          /\ chat' = [chat EXCEPT !.pc = "done", !.handlers = @ + 1,
                                  !.mutations = IF case.mutated THEN @ + 1 ELSE @]
          /\ UNCHANGED llm
     ELSE IF a = "get_recommendations"
     THEN /\ StartRecommendations(dbOk)
          /\ UNCHANGED subscriptions
     ELSE /\ dbOk
          /\ resp' = Response(200, "none", "llm_text", "none")
          /\ chat' = [chat EXCEPT !.pc = "done", !.handlers = @ + 1]
          /\ UNCHANGED <<subscriptions, llm>>
  /\ UNCHANGED <<GROQ_API_KEY, cancelCalls, proc, rateLimiter>>
  /\ UNCHANGED gateVars

\* The setInterval sweep of the RateLimiter.
Cleanup ==
  /\ proc = "serving"
  /\ rateLimiter
  /\ clients' = CleanupMap(clients, clock)
  /\ UNCHANGED <<clock, GROQ_API_KEY, cancelCalls, proc, rateLimiter, admitLog, denied, last>>
  /\ UNCHANGED chatVars

GateNext ==
  \/ \E dbOk \in BOOLEAN : InitializeServices(dbOk)
  \/ Tick
  \/ \E ip \in ClientIps, route \in ApiRoutes, d \in {0, TickMs} : GateRequest(ip, route, d)
  \/ Cleanup

GateSpec == Init /\ [][GateNext]_vars

ChatNext ==
  \/ \E dbOk \in BOOLEAN : InitializeServices(dbOk)
  \/ \E customerId \in CustomerIds \cup {NoCustomer}, m \in ChatMessages \cup {NoMessage} :
       ChatRequest(customerId, m)
  \/ \E ok \in BOOLEAN : BackendResult(ok)
  \/ SleepDone
  \/ \E reply \in IntentReplies : ExtractIntentDone(reply)
  \/ \E dbOk \in BOOLEAN : Dispatch(dbOk)
  \/ \E dbOk \in BOOLEAN : DispatchToBackend(dbOk)
  \/ ReplyDone
  \/ \E out \in ModelOutputs : RecommendationsDone(out)
  \/ RequestEnds

ChatSpec == Init /\ [][ChatNext]_vars

\* The keyword-first chat handler up to its intent detection, over all the
\* messages.
LexicalNext ==
  \/ \E dbOk \in BOOLEAN : InitializeServices(dbOk)
  \/ /\ chat.pc = "idle"
     /\ \E customerId \in CustomerIds \cup {NoCustomer}, m \in Messages \cup {NoMessage} :
          ChatRequest(customerId, m)
  \/ RequestEnds

LexicalSpec == Init /\ [][LexicalNext]_vars

\* The SubscriptionManager under any sequence of calls.
ManagerNext ==
  \/ \E dbOk \in BOOLEAN : InitializeServices(dbOk)
  \/ \E customerId \in CustomerIds, planId \in CallPlanIds, dbOk \in BOOLEAN :
       CallCreateSubscription(customerId, planId, dbOk)
  \/ \E subscriptionId \in CallSubscriptionIds, updates \in Updates, dbOk \in BOOLEAN :
       CallUpdateSubscription(subscriptionId, updates, dbOk)
  \/ \E subscriptionId \in CallSubscriptionIds, dbOk \in BOOLEAN :
       CallCancelSubscription(subscriptionId, dbOk)
  \/ \E customerId \in CustomerIds, dbOk \in BOOLEAN :
       SubscriptionsRoute(customerId, dbOk)

ManagerSpec == Init /\ [][ManagerNext]_vars

\* Overlapping cancelSubscription calls on the rows of one customer, as time
\* passes.
CancelNext ==
  \/ \E dbOk \in BOOLEAN : InitializeServices(dbOk)
  \/ Tick
  \/ CallCreateSubscription("customer-1", "basic", TRUE)
  \/ \E c \in CancelCallers, subscriptionId \in CallSubscriptionIds :
       CancelStarts(c, subscriptionId)
  \/ \E c \in CancelCallers, dbOk \in BOOLEAN : CancelSelected(c, dbOk)
  \/ \E c \in CancelCallers, dbOk \in BOOLEAN : CancelUpdated(c, dbOk)
  \/ \E c \in CancelCallers, dbOk \in BOOLEAN : CancelReturned(c, dbOk)
  \/ \E c \in CancelCallers : CancelEnds(c)

CancelSpec == Init /\ [][CancelNext]_vars

\* generateRecommendations behind its route, for customers whose
\* subscriptions any sequence of manager calls has written.
RecNext ==
  \/ \E dbOk \in BOOLEAN : InitializeServices(dbOk)
  \/ \E customerId \in CustomerIds, planId \in CallPlanIds, dbOk \in BOOLEAN :
       CallCreateSubscription(customerId, planId, dbOk)
  \/ \E subscriptionId \in CallSubscriptionIds, updates \in Updates, dbOk \in BOOLEAN :
       CallUpdateSubscription(subscriptionId, updates, dbOk)
  \/ \E subscriptionId \in CallSubscriptionIds, dbOk \in BOOLEAN :
       CallCancelSubscription(subscriptionId, dbOk)
  \/ \E customerId \in CustomerIds, dbOk \in BOOLEAN :
       RecommendationsRoute(customerId, dbOk)
  \/ \E ok \in BOOLEAN : BackendResult(ok)
  \/ SleepDone
  \/ \E out \in ModelOutputs : RecommendationsDone(out)
  \/ RequestEnds

RecSpec == Init /\ [][RecNext]_vars

\* Chat requests of one client from the gate to the response, within one
\* window of the limiter.
ServeNext ==
  \/ \E dbOk \in BOOLEAN : InitializeServices(dbOk)
  \/ \E customerId \in CustomerIds \cup {NoCustomer}, m \in ChatMessages \cup {NoMessage} :
       ServeChatRequest("ip1", 0, customerId, m)
  \/ \E ok \in BOOLEAN : BackendResult(ok)
  \/ SleepDone
  \/ \E reply \in IntentReplies : ExtractIntentDone(reply)
  \/ \E dbOk \in BOOLEAN : Dispatch(dbOk)
  \/ \E dbOk \in BOOLEAN : DispatchToBackend(dbOk)
  \/ ReplyDone
  \/ \E out \in ModelOutputs : RecommendationsDone(out)
  \/ RequestEnds

ServeSpec == Init /\ [][ServeNext]_vars

\* Every await of the handler settles: the store answers or rejects, the
\* backend call settles, the sleep() timer fires, the response goes out.
ServeLiveSpec ==
  /\ ServeSpec
  /\ WF_vars(\E ok \in BOOLEAN : BackendResult(ok))
  /\ WF_vars(SleepDone)
  /\ WF_vars(\E reply \in IntentReplies : ExtractIntentDone(reply))
  /\ WF_vars(\E dbOk \in BOOLEAN : Dispatch(dbOk))
  /\ WF_vars(\E dbOk \in BOOLEAN : DispatchToBackend(dbOk))
  /\ WF_vars(ReplyDone)
  /\ WF_vars(\E out \in ModelOutputs : RecommendationsDone(out))
  /\ WF_vars(RequestEnds)

\* The engine's arithmetic over bounded prices, subscriptions and catalogs.
EngineNext ==
  \/ /\ resp = NoResponse
     /\ \E currentSubscriptions \in Lists(PricedPlans, MaxRows),
           recommendedPlan \in PricedPlans :
          CallCalculateSavings(currentSubscriptions, recommendedPlan)
  \/ /\ resp = NoResponse
     /\ \E rows \in Lists(SeedPricedPlans, MaxRows),
           plans \in Catalogs :
          CallConsolidation(rows, plans)
  \/ CallReturns

EngineSpec == Init /\ [][EngineNext]_vars

\* Either chat handler of the repository may be the one that is deployed:
\* every request is handled by the keyword-first handler or by the
\* function-calling handler.
HandlersNext ==
  \/ ChatNext
  \/ \E customerId \in CustomerIds \cup {NoCustomer}, m \in {{"hello"}, NoMessage} :
       ToolChatRequest(customerId, m)
  \/ \E toolCalls \in ToolCallLists : ToolsResponse(toolCalls)
  \/ \E dbOk \in BOOLEAN : ToolDispatch(dbOk)

HandlersSpec == Init /\ [][HandlersNext]_vars

\* Every backend call settles and every sleep() timer fires.
ChatLiveSpec ==
  /\ ChatSpec
  /\ WF_vars(\E ok \in BOOLEAN : BackendResult(ok))
  /\ WF_vars(SleepDone)

\* ================================================================ claims

\* Entries of the limiter whose window is still open.
Live(ip) == rateLimiter /\ HasClient(clients, ip) /\ clock < clients[ip].resetTime

WindowStart(ip) == clients[ip].resetTime - WindowMs

\* C1: for every identity, the stored count never exceeds maxRequests while
\* now < resetTime (the request after the maxRequests-th of a window is denied).
C1_CountWithinMax ==
  \A ip \in ClientIps : Live(ip) => clients[ip].count <= MaxRequests

\* C1 witness: a full window in which the next request has just been denied.
C1_Witness ==
  \E ip \in ClientIps :
    /\ Live(ip) /\ clients[ip].count = MaxRequests
    /\ last.ip = ip /\ last.gate = "deny" /\ last.at = clock

\* C2: the check and the increment of one request are never separated by
\* another request: the requests actually let through during one window,
\* concurrent ones included, never outnumber maxRequests.
C2_OneSlotOneAdmission ==
  \A ip \in ClientIps : Live(ip) => AdmitsSince(ip, WindowStart(ip)) <= MaxRequests

\* C2 witness: two requests of one identity handled at the same instant, the
\* first took the last slot and the second was denied.
C2_Witness ==
  \E ip \in ClientIps :
    /\ Live(ip) /\ clients[ip].count = MaxRequests
    /\ last.ip = ip /\ last.gate = "deny" /\ last.at = clock /\ ~last.afterDeny
    /\ Len(admitLog[ip]) > 0 /\ admitLog[ip][Len(admitLog[ip])] = clock

\* C3: requests made inside a window never move its reset time, and any
\* request made at or after the reset time is admitted, with no cleanup()
\* or manual reset required.
C3_ResetAfterWindow ==
  [][\A ip \in ClientIps :
       /\ (rateLimiter /\ HasClient(clients, ip) /\ clock' < clients[ip].resetTime)
            => (HasClient(clients', ip)
                /\ clients'[ip].resetTime = clients[ip].resetTime)
       /\ \A route \in ApiRoutes, d \in {0, TickMs} :
            (/\ GateRequest(ip, route, d)
             /\ rateLimiter /\ HasClient(clients, ip)
             /\ clock >= clients[ip].resetTime)
            => last'.gate = "next"]_vars

\* C3 witness: an identity whose latest request was denied has been admitted
\* again, its stale entry still in the map (no cleanup ran in between).
C3_Witness ==
  \E ip \in ClientIps :
    /\ last.ip = ip /\ last.gate = "next" /\ last.afterDeny
    /\ Live(ip) /\ clients[ip].count = 1 /\ WindowStart(ip) = last.at

\* C4: a denial carries a retryAfter in whole seconds that is at least 1 and
\* reaches the reset time of the window that denied the request.
C4_RetryAfterRule ==
  last.gate = "deny" =>
    /\ last.retryAfter >= 1
    /\ last.at + last.retryAfter * MsPerSec >= last.resetTime

\* C5: when the gate cannot produce a decision (no limiter constructed) the
\* request is not forwarded to its route handler.
C5_FailClosed ==
  (last.gate # "none" /\ ~Decided(last)) => ~Forwarded(last)

\* C6: every /api request is decided by the one limiter: a request reaches a
\* route handler only if the gate admitted it, and the admissions of one
\* identity over all routes add up in its single counter.
C6_AllRoutesGated ==
  /\ Forwarded(last) => last.gate = "next"
  /\ \A ip \in ClientIps :
       Live(ip) => clients[ip].count = AdmitsSince(ip, WindowStart(ip))

C8_SlidingWindow ==
  \A ip \in ClientIps : AdmitsSince(ip, clock - WindowMs + 1) <= MaxRequests

\* C9: generateResponse makes at most 3 backend attempts, returns at the
\* first success, sleeps k x retryDelay after the k-th failure (k < 3), ends
\* with the unavailable error right after the third failure, and terminates
\* whenever every backend call settles.
C9_Attempts ==
  /\ llm.attempt <= 3
  /\ \A k \in 1..Len(llm.slept) : llm.slept[k] = k * retryDelay
  /\ llm.pc = "calling"  => Len(llm.slept) = llm.attempt - 1
  /\ llm.pc = "sleeping" => llm.attempt <= 2 /\ Len(llm.slept) = llm.attempt
  /\ llm.pc = "returned" => llm.value = "completion" /\ Len(llm.slept) = llm.attempt - 1
  /\ llm.pc = "thrown"   => llm.attempt = 3 /\ Len(llm.slept) = 2

C9_BoundedRetry ==
  /\ []C9_Attempts
  /\ [][llm.pc \in {"returned", "thrown"} => llm' = llm \/ llm'.pc = "idle"]_vars
  /\ (llm.pc = "calling" ~> llm.pc \in {"returned", "thrown"})

\* C9 witness: three failed attempts, sleeps of 1 x and 2 x retryDelay between
\* them, and the call has ended with the error.
C9_Witness ==
  llm.pc = "thrown" /\ llm.attempt = 3 /\ llm.slept = <<retryDelay, 2 * retryDelay>>

\* C10: with the backend disabled (no API key) or failing, the server still
\* serves, and a message the keywords resolve to one of the four non-model
\* actions is answered with no backend call made for its intent.
C10_LexicalWithoutBackend ==
  /\ ~(~GROQ_API_KEY /\ rateLimiter /\ proc = "exited")
  /\ (chat.pc = "done" /\ chat.lexical /\ chat.intent.action \in NonModelActions)
       => (~chat.intentCalls /\ (resp.status = 200 \/ resp.cause = "STORE"))

\* C11: when the backend's reply is not valid JSON, or is JSON that fails the
\* schema, intent resolution yields {action: general_query, confidence: 0.5}
\* and the request does not end in an error caused by the payload.
C11_DegradesToGeneralQuery ==
  chat.payload \in {"not_json", "bad_schema"} =>
    /\ chat.intent = GeneralQuery
    /\ ~(resp.status = 500 /\ resp.cause \in {"TYPE", "VALIDATION", "NOT_FOUND"})

\* C12: for one inbound chat message at most one action handler runs and at
\* most one store mutation is performed; of several invocations returned by
\* the backend only the first is executed (the response and the store are
\* those of the first invocation alone).
C12_HandlerOfFirst ==
  /\ chat.handlers <= 1
  /\ chat.mutations <= 1
  /\ (chat.toolCalls # <<>> /\ chat.pc \in {"done", "recommend"}
        /\ chat.toolCalls[1].json)
       => /\ chat.handlers = 1
          /\ LET first == chat.toolCalls[1] IN
             \/ resp.status = 500
             \/ CASE first.name = "create_subscription" ->
                       resp.text \in {"created", "which_plan"}
                  [] first.name = "cancel_subscription" ->
                       resp.text \in {"cancelled", "which_subscription",
                                      "nothing_to_cancel"}
                  [] first.name = "view_subscriptions" ->
                       resp.text \in {"subscription_list", "no_subscriptions"}
                  [] first.name = "get_recommendations" ->
                       \/ chat.pc = "recommend"
                       \/ resp.text \in {"starter_recommendation", "recommendations"}
                  [] OTHER -> resp.text = "llm_text"

C12_OneMutation ==
  /\ []C12_HandlerOfFirst
  /\ [][chat.pc = "toolcall" =>
          LET first == chat.toolCalls[1]
              case  == StoreCase(subscriptions, clock, ToolAction(first.name),
                                 chat.customerId, first.planId,
                                 first.subscriptionId, TRUE)
          IN subscriptions' = subscriptions
             \/ (first.json /\ subscriptions' = case.out.subs)]_vars

\* C12 witness: the backend returned two invocations, a create followed by a
\* cancel of the row the create makes; the request is answered with the
\* created subscription, which is still active.
C12_Witness ==
  /\ chat.pc = "done" /\ Len(chat.toolCalls) = 2
  /\ chat.toolCalls[1].name = "create_subscription"
  /\ chat.toolCalls[2].name = "cancel_subscription"
  /\ chat.toolCalls[2].subscriptionId = 1
  /\ resp.action = "subscription_created" /\ chat.mutations = 1
  /\ Len(subscriptions) = 1 /\ subscriptions[1].status = "active"

\* The precedence order of the lexical classifier.
C13_Precedence ==
  <<"view_subscriptions", "view_billing", "get_recommendations",
    "create_subscription", "cancel_subscription", "general_query">>

\* The first action in the precedence order whose trigger m satisfies.
C13_FirstTriggered(m) ==
  C13_Precedence[CHOOSE k \in 1..Len(C13_Precedence) :
                   /\ Trigger(C13_Precedence[k], m)
                   /\ \A j \in 1..(k - 1) : ~Trigger(C13_Precedence[j], m)]

C14_PlanTokens == {"basic", "pro", "enterprise"}

\* C14: when the lexical classifier resolves create_subscription, planId is
\* unset or one of basic, pro, enterprise; it is set exactly when the message
\* contains one of these tokens (basic wins over the others, enterprise wins
\* over pro) and unset exactly when the message reached create_subscription
\* only through the word 'plan'.
C14_ClosedPlanVocabulary ==
  (chat.message # NoMessage /\ chat.lexical
     /\ chat.intent.action = "create_subscription")
  => LET m == chat.message
         planId == chat.intent.planId
     IN /\ planId \in C14_PlanTokens \cup {"none"}
        /\ planId # "none" <=> IncludesAny(m, C14_PlanTokens)
        /\ planId = "none" <=> (Includes(m, "plan") /\ ~IncludesAny(m, C14_PlanTokens))
        /\ Includes(m, "basic") => planId = "basic"
        /\ (Includes(m, "enterprise") /\ ~Includes(m, "basic")) => planId = "enterprise"
        /\ (Includes(m, "pro") /\ ~Includes(m, "basic") /\ ~Includes(m, "enterprise"))
             => planId = "pro"

\* C14 witness: 'buy pro enterprise' is resolved to create_subscription with
\* planId enterprise.
C14_Witness ==
  /\ chat.message = {"buy", "pro", "enterprise"}
  /\ chat.lexical /\ chat.intent.action = "create_subscription"
  /\ chat.intent.planId = "enterprise"

CallSettles(name) ==
  /\ <<subscriptions, resp>>' # <<subscriptions, resp>>
  /\ resp'.text \in {"returned", "thrown"}
  /\ resp'.call.name = name

C18_CancelledHasEndDate ==
  \A k \in 1..Len(subscriptions) :
    subscriptions[k].status = "cancelled" => subscriptions[k].end_date # NoDate

\* C19: when generateRecommendations is called for an existing customer none
\* of whose subscriptions is active (there is none, or they are cancelled or
\* paused), and the store answers its queries, the call returns at once
\* with exactly one entry, the canned starter plan, and the backend is not
\* called.
C19_StarterWithoutBackend ==
  [][\A cid \in Customers :
       (/\ chat.pc = "idle" /\ chat'.pc # "idle" /\ chat'.customerId = cid
        /\ \A k \in CustomerSubscriptions(subscriptions, cid) :
             subscriptions[k].status # "active"
        /\ resp'.cause # "STORE")
       => /\ chat'.pc = "done"
          /\ resp'.status = 200
          /\ resp'.recommendations = <<StarterRecommendation>>
          /\ llm.pc = "idle" /\ llm' = llm]_vars

\* C19 witness: a customer whose only subscription is paused has been given
\* the starter recommendation.
C19_Witness ==
  /\ chat.pc = "done"
  /\ resp.recommendations = <<StarterRecommendation>>
  /\ CustomerSubscriptions(subscriptions, chat.customerId) # {}
  /\ \A k \in CustomerSubscriptions(subscriptions, chat.customerId) :
       subscriptions[k].status = "paused"

\* Two completion texts that differ at most in the potentialSavings numbers.
C20_SameButSavings(o1, o2) ==
  LET r1 == ParsedRecommendations(o1)
      r2 == ParsedRecommendations(o2)
  IN /\ o1.kind = o2.kind
     /\ Len(r1) = Len(r2)
     /\ \A i \in 1..Len(r1) :
          [r1[i] EXCEPT !.potentialSavings = 0] = [r2[i] EXCEPT !.potentialSavings = 0]

\* C20: while generateRecommendations waits for the backend's reply, any two
\* replies that differ only in their potentialSavings numbers lead to the
\* same result (the same potentialSavings and costImplication in every
\* entry).
C20_SavingsIndependentOfModel ==
  (chat.pc = "recommend" /\ llm.pc = "returned" /\ llm.value # "undefined")
    => LET ks == ActiveSubscriptions(subscriptions, chat.customerId) IN
       \A o1, o2 \in ModelOutputs :
         C20_SameButSavings(o1, o2)
           => FormattedRecommendations(subscriptions, ks, o1)
                = FormattedRecommendations(subscriptions, ks, o2)

\* The monthly cost of a plan in twelfths of a cent: the price if it is
\* billed monthly, a twelfth of the price if it is billed yearly.
C21_Monthly12(p) == IF p.billing_cycle = "yearly" THEN p.price ELSE 12 * p.price

\* C21: calculateSavings returns the cent nearest to currentMonthlyTotal -
\* recommendedMonthlyCost, where currentMonthlyTotal is the sum of the
\* monthly costs of the subscriptions it is given (the amounts are within
\* half a cent of each other).
C21_SavingsArithmetic ==
  (resp.text = "returned" /\ resp.call.name = "calculateSavings")
    => LET rows == resp.call.rows
           sum[n \in 0..Len(rows)] ==
             IF n = 0 THEN 0 ELSE sum[n - 1] + C21_Monthly12(rows[n])
           exact == sum[Len(rows)] - C21_Monthly12(resp.call.plans[1])
       IN /\ 12 * resp.value - exact <= 6
          /\ exact - 12 * resp.value <= 6

\* C21 witness: the savings of a customer with a monthly and a yearly
\* subscription against a yearly plan, where the exact amount is not a whole
\* number of cents.
C21_Witness ==
  /\ resp.text = "returned" /\ resp.call.name = "calculateSavings"
  /\ Len(resp.call.rows) = 2
  /\ resp.call.rows[1].billing_cycle = "monthly"
  /\ resp.call.rows[2].billing_cycle = "yearly"
  /\ resp.call.rows[2].price = 2999
  /\ resp.call.plans[1].billing_cycle = "yearly"
  /\ resp.call.plans[1].price = 5
  /\ resp.value = resp.call.rows[1].price + 250

\* The sum of the prices of the current plans, in cents.
C22_Sum(rows) ==
  LET sum[n \in 0..Len(rows)] == IF n = 0 THEN 0 ELSE sum[n - 1] + rows[n].price
  IN sum[Len(rows)]

\* The top-tier plans of a catalog that cost strictly less than the current
\* plans together.
C22_Qualifying(rows, plans) ==
  {i \in 1..Len(plans) : /\ plans[i].name \in PremiumNames
                         /\ plans[i].price < C22_Sum(rows)}

\* C22: the consolidation step appends an entry exactly when there are two
\* subscriptions at least and the catalog has a top-tier plan that costs
\* strictly less than the current plans together; it appends one entry at
\* most, for such a plan, with the difference as its potentialSavings.
C22_ConsolidationRule ==
  (resp.text = "returned" /\ resp.call.name = "consolidation")
    => LET rows == resp.call.rows
           plans == resp.call.plans
           appended == resp.recommendations
       IN /\ Len(appended) <= 1
          /\ Len(appended) = 1
               <=> (Len(rows) >= 2 /\ C22_Qualifying(rows, plans) # {})
          /\ Len(appended) = 1
               => \E i \in C22_Qualifying(rows, plans) :
                    /\ appended[1].planId = plans[i].id
                    /\ appended[1].potentialSavings = C22_Sum(rows) - plans[i].price

\* The wording of costImplication that goes with an amount of savings.
C23_Phrase(potentialSavings) ==
  IF potentialSavings > 0 THEN "Save"
  ELSE IF potentialSavings < 0 THEN "Additional"
  ELSE "Similar cost"

\* C23: every entry of a recommendations result carries a costImplication,
\* worded by the sign of the entry's potentialSavings.
C23_CostImplicationBySign ==
  \A i \in 1..Len(resp.recommendations) :
    resp.recommendations[i].costImplication.phrase
      = C23_Phrase(resp.recommendations[i].potentialSavings)

\* C24: while generateRecommendations waits for the backend's reply, every
\* reply that is not a JSON array (text that does not parse, or a JSON
\* object, null, number or string) leads to the result an empty array leads
\* to, without an error.
C24_NonArrayGivesEmpty ==
  (chat.pc = "recommend" /\ llm.pc = "returned")
    => LET ks == ActiveSubscriptions(subscriptions, chat.customerId)
           empty == FormattedRecommendations(subscriptions, ks,
                                             ModelOutput("array", <<>>, ScalarRec))
       IN \A out \in ModelOutputs :
            out.kind # "array"
              => /\ FormattedRecommendations(subscriptions, ks, out).cause = "none"
                 /\ FormattedRecommendations(subscriptions, ks, out) = empty

C26_Unexpired(cl, now) == {k \in DOMAIN cl : now < cl[k].resetTime}

C26_Restrict(cl, S) == [k \in S |-> cl[k]]

\* The maps that interleaved sweeps can have made of cl by time `now`: cl
\* without some of its expired entries.
C26_Swept(cl, now) ==
  {C26_Restrict(cl, S) : S \in {T \in SUBSET DOMAIN cl : C26_Unexpired(cl, now) \subseteq T}}

\* C26: a step of the limiter's map that is not the recording of an admitted
\* request is a sweep, and it removes exactly the entries with
\* now >= resetTime and leaves the others as they were.  Sweeps never show
\* in a decision: a map and the same map without some of its expired
\* entries give the same isAllowed and retryAfter for every identity, and
\* they are again such a pair after the same request is recorded in both
\* or after one of them is swept.
C26_SweepIsInvisible ==
  /\ [][(/\ clients' # clients
          /\ ~(last'.gate = "next" /\ clients' = RecordRequest(clients, last'.ip, clock')))
        => /\ clock' = clock
           /\ DOMAIN clients' = C26_Unexpired(clients, clock)
           /\ \A k \in DOMAIN clients' : clients'[k] = clients[k]]_vars
  /\ [](\A sw \in C26_Swept(clients, clock) :
          /\ CleanupMap(sw, clock) \in C26_Swept(clients, clock)
          /\ CleanupMap(clients, clock) \in C26_Swept(clients, clock)
          /\ \A ip \in ClientIps, now \in {clock, clock + TickMs} :
                /\ IsAllowed(sw, ip, now) = IsAllowed(clients, ip, now)
                /\ RetryAfter(sw, ip, now) = RetryAfter(clients, ip, now)
                /\ C26_Swept(clients, clock) \subseteq C26_Swept(clients, now)
                /\ RecordRequest(sw, ip, now)
                     \in C26_Swept(RecordRequest(clients, ip, now), now))

\* C26 witness: the sweep has removed the expired entry of one identity, whose
\* latest admission is a full window old, and kept the open window of another.
C26_Witness ==
  \E ip \in ClientIps, other \in ClientIps :
    /\ ~HasClient(clients, ip) /\ Len(admitLog[ip]) > 0
    /\ Live(other) /\ clients[other].count = MaxRequests

\* This step is a run of the gate for a request of ip with outcome `gate`.
C27_GateStep(ip, gate) ==
  /\ last'.ip = ip /\ last'.gate = gate /\ last'.at = clock'
  /\ last' # last \/ admitLog' # admitLog

\* C27: a run of the gate that denies (isAllowed and getResetTime only)
\* leaves the limiter's map as it was; a run that admits a request of one
\* identity leaves the entry of every other identity as it was, present or
\* not, and with it the decision and retryAfter any other identity gets.
C27_GateFrame ==
  [][\A ip \in ClientIps :
       /\ C27_GateStep(ip, "deny") => clients' = clients
       /\ C27_GateStep(ip, "next") =>
            \A other \in ClientIps \ {ip} :
              /\ HasClient(clients', other) = HasClient(clients, other)
              /\ HasClient(clients, other) => clients'[other] = clients[other]
              /\ \A now \in {clock', clock' + TickMs} :
                   /\ IsAllowed(clients', other, now) = IsAllowed(clients, other, now)
                   /\ RetryAfter(clients', other, now) = RetryAfter(clients, other, now)]_vars

\* C27 witness: one identity is admitted into a new window while another,
\* denied before, still sits at its quota.
C27_Witness ==
  \E ip \in ClientIps : \E other \in ClientIps \ {ip} :
    /\ last.ip = ip /\ last.gate = "next" /\ last.at = clock
    /\ Live(ip) /\ clients[ip].count = 1
    /\ Live(other) /\ clients[other].count = MaxRequests /\ denied[other]

\* C28: a step of a chat request of customer C whose action is
\* cancel_subscription leaves every subscription row of another customer as
\* it was.
C28_CancelOwnOnly ==
  [][(chat.pc = "dispatch" /\ chat.intent.action = "cancel_subscription")
       => \A k \in 1..Len(subscriptions) :
            subscriptions[k].customer_id # chat.customerId
              => /\ k <= Len(subscriptions')
                 /\ subscriptions'[k] = subscriptions[k]]_vars

\* The UPDATE of call c is executed in this step.
C29_Lands(c) == cancelCalls[c].pc = "update" /\ cancelCalls'[c].pc = "reselect"

\* C29: a cancelSubscription call that finds its row cancelled already goes
\* on to its UPDATE like any other; every UPDATE that is executed, on a
\* cancelled row or not and whatever other call is in progress, leaves the
\* row cancelled with the end date that call computed, and nothing else
\* changes a row; so a row's end date is that of the UPDATE executed last.
\* A call that returns returns a cancelled row.
C29_LastWriteWins ==
  /\ [][\A c \in CancelCallers :
          /\ (cancelCalls[c].pc = "select" /\ cancelCalls'[c].pc = "thrown"
                /\ cancelCalls'[c].cause = "NOT_FOUND")
              => cancelCalls[c].subscriptionId \notin 1..Len(subscriptions)
          /\ C29_Lands(c)
              => LET k == cancelCalls[c].subscriptionId IN
                 /\ subscriptions'[k].status = "cancelled"
                 /\ subscriptions'[k].end_date = <<cancelCalls[c].at>>
                 /\ subscriptions'[k].customer_id = subscriptions[k].customer_id
                 /\ subscriptions'[k].plan_id = subscriptions[k].plan_id]_vars
  /\ [][\A k \in 1..Len(subscriptions) :
          subscriptions'[k] # subscriptions[k]
            => \E c \in CancelCallers :
                 C29_Lands(c) /\ cancelCalls[c].subscriptionId = k]_vars
  /\ [](\A c \in CancelCallers :
          cancelCalls[c].pc = "returned"
            => \A row \in cancelCalls[c].data :
                 /\ row.id = cancelCalls[c].subscriptionId
                 /\ row.status = "cancelled"
                 /\ row.end_date # NoDate)

\* C29 witness: two overlapping calls on one row have both returned; the
\* UPDATE executed last was the one issued first, and the row holds its time.
C29_Witness ==
  /\ cancelCalls["first"].pc = "returned" /\ cancelCalls["second"].pc = "returned"
  /\ cancelCalls["first"].subscriptionId = 1 /\ cancelCalls["second"].subscriptionId = 1
  /\ cancelCalls["first"].at < cancelCalls["second"].at
  /\ subscriptions[1].status = "cancelled"
  /\ subscriptions[1].end_date = <<cancelCalls["first"].at>>
  /\ \E row \in cancelCalls["second"].data : row.end_date = <<cancelCalls["second"].at>>

====
